---------------------------- MODULE Spec2Model ----------------------------
(***************************************************************************)
(* Model of the campaign competition bot of src/main.py: the two store     *)
(* tables (players, times), the command handlers that read and write them, *)
(* the leaderboard helpers, the scoring table and the time codec.          *)
(*                                                                         *)
(* Text is modelled as a sequence of one-character strings, so that        *)
(* parsing and formatting are computed character by character.             *)
(***************************************************************************)
EXTENDS Integers, Sequences, FiniteSets, TLC

VARIABLES players, times, nops, result

vars == <<players, times, nops, result>>

(***************************************************************************)
(* Bounds of the model.                                                    *)
(***************************************************************************)
\* Number of commands handled in one behaviour.
MaxOps == 5
\* Positions handed to get_points_for_position range over -MaxRank..MaxRank.
MaxRank == 30

(***************************************************************************)
(* Python text primitives.                                                 *)
(***************************************************************************)
Digits == <<"0", "1", "2", "3", "4", "5", "6", "7", "8", "9">>

IsDigit(c) == \E d \in 1..10 : Digits[d] = c

DigitVal(c) == (CHOOSE d \in 1..10 : Digits[d] = c) - 1

AllDigits(s) == \A i \in 1..Len(s) : IsDigit(s[i])

RECURSIVE py_str(_)
\* str(n) of a non-negative integer: its decimal digits.
py_str(n) ==
    IF n < 10 THEN <<Digits[n + 1]>>
    ELSE Append(py_str(n \div 10), Digits[(n % 10) + 1])

RECURSIVE py_int(_)
\* int(s) of a non-empty string of digits.
py_int(s) ==
    IF Len(s) = 0 THEN 0
    ELSE 10 * py_int(SubSeq(s, 1, Len(s) - 1)) + DigitVal(s[Len(s)])

RECURSIVE zero_pad(_, _)
\* The format specification :0<width>d applied to the digits of a
\* non-negative integer: zeros on the left up to width, never cut.
zero_pad(s, width) ==
    IF Len(s) >= width THEN s ELSE zero_pad(<<"0">> \o s, width)

RECURSIVE ljust(_, _, _)
\* s.ljust(width, fill): fill on the right up to width, never cut.
ljust(s, width, fill) ==
    IF Len(s) >= width THEN s ELSE ljust(Append(s, fill), width, fill)

\* s[:n]
py_prefix(s, n) == SubSeq(s, 1, IF Len(s) < n THEN Len(s) ELSE n)

IsSpace(c) == c \in {" ", "\t", "\n", "\r"}

RECURSIVE strip(_)
\* s.strip(): leading and trailing whitespace removed.
strip(s) ==
    IF Len(s) = 0 THEN s
    ELSE IF IsSpace(s[1]) THEN strip(Tail(s))
    ELSE IF IsSpace(s[Len(s)]) THEN strip(SubSeq(s, 1, Len(s) - 1))
    ELSE s

\* The list (or text) with the elements f[1], ..., f[Len(f)], each computed
\* once, when the list is built.
list(f) == f \o <<>>

\* s.replace(old, new) for one-character old and new.
replace(s, old, new) ==
    list([i \in 1..Len(s) |-> IF s[i] = old THEN new ELSE s[i]])

\* lst[i] of a Python list, negative indices counted from the end.
\* exc is "IndexError" when i is outside -len..len-1.
py_index(lst, i) ==
    IF i >= 0 /\ i < Len(lst) THEN [exc |-> "none", value |-> lst[i + 1]]
    ELSE IF i < 0 /\ i >= -Len(lst)
        THEN [exc |-> "none", value |-> lst[Len(lst) + i + 1]]
    ELSE [exc |-> "IndexError", value |-> 0]

(***************************************************************************)
(* Time codec.                                                             *)
(***************************************************************************)
\* parse_time's result for a text that matches none of its shapes.
None == -1

\* ^(\d+):(\d{1,2})[:.](\d{1,3})$ : the places <<p1, p2>> of the two
\* separators of a full match (at most one pair exists).
match_m_ss_fff(s) ==
    { pp \in (1..Len(s)) \X (1..Len(s)) :
        /\ pp[1] >= 2
        /\ s[pp[1]] = ":"
        /\ AllDigits(SubSeq(s, 1, pp[1] - 1))
        /\ pp[2] - pp[1] - 1 \in 1..2
        /\ AllDigits(SubSeq(s, pp[1] + 1, pp[2] - 1))
        /\ s[pp[2]] \in {":", "."}
        /\ Len(s) - pp[2] \in 1..3
        /\ AllDigits(SubSeq(s, pp[2] + 1, Len(s))) }

\* ^(\d+)\.(\d{1,3})$ : the place of the point of a full match.
match_ss_fff(s) ==
    { p \in 1..Len(s) :
        /\ p >= 2
        /\ s[p] = "."
        /\ AllDigits(SubSeq(s, 1, p - 1))
        /\ Len(s) - p \in 1..3
        /\ AllDigits(SubSeq(s, p + 1, Len(s))) }

\* ^(\d+)$
match_raw(s) == Len(s) >= 1 /\ AllDigits(s)

parse_time(time_str) ==
    LET s == replace(strip(time_str), ",", ".") IN
    IF match_m_ss_fff(s) # {} THEN
        LET pp == CHOOSE q \in match_m_ss_fff(s) : TRUE
            minutes == SubSeq(s, 1, pp[1] - 1)
            seconds == SubSeq(s, pp[1] + 1, pp[2] - 1)
            ms == py_prefix(ljust(SubSeq(s, pp[2] + 1, Len(s)), 3, "0"), 3)
        IN py_int(minutes) * 60000 + py_int(seconds) * 1000 + py_int(ms)
    ELSE IF match_ss_fff(s) # {} THEN
        LET p == CHOOSE q \in match_ss_fff(s) : TRUE
            seconds == SubSeq(s, 1, p - 1)
            ms == py_prefix(ljust(SubSeq(s, p + 1, Len(s)), 3, "0"), 3)
        IN py_int(seconds) * 1000 + py_int(ms)
    ELSE IF match_raw(s) THEN py_int(s)
    ELSE None

format_time_unpadded(ms) ==
    IF ms <= 0 THEN <<"0", "0", ":", "0", "0", ".", "0", "0", "0">>
    ELSE LET minutes == ms \div 60000
             seconds == (ms % 60000) \div 1000
             milliseconds == ms % 1000
         IN zero_pad(py_str(minutes), 2) \o <<":">>
                \o zero_pad(py_str(seconds), 2) \o <<".">>
                \o py_str(milliseconds)

format_time(ms) ==
    IF ms <= 0 THEN <<"0", "0", ":", "0", "0", ".", "0", "0", "0">>
    ELSE LET minutes == ms \div 60000
             seconds == (ms % 60000) \div 1000
             milliseconds == ms % 1000
         IN zero_pad(py_str(minutes), 2) \o <<":">>
                \o zero_pad(py_str(seconds), 2) \o <<".">>
                \o zero_pad(py_str(milliseconds), 3)

(***************************************************************************)
(* Scoring table.                                                          *)
(***************************************************************************)
point_values == <<25, 18, 15, 12, 10, 8, 6, 4, 2, 1>>

\* The result is [exc, value]: exc is "none" when the call returns value.
get_points_for_position(position) ==
    IF position = 0 THEN [exc |-> "none", value |-> 0]
    ELSE IF position <= Len(point_values) THEN py_index(point_values, position - 1)
    ELSE [exc |-> "none", value |-> 1]


(***************************************************************************)
(* Configuration and command arguments.                                    *)
(***************************************************************************)
\* The keys of COMPETITION_MAPS.
COMPETITION_MAPS == 1..5

\* The longest username register_player accepts.
MaxUsernameLen == 50

\* The inclusive range of a submitted time, in milliseconds.
MinTimeMs == 1000
MaxTimeMs == 600000

in_range_no_floor(time_ms) == time_ms <= MaxTimeMs

\* 1000 <= time_ms <= 600000
in_range(time_ms) == MinTimeMs <= time_ms /\ time_ms <= MaxTimeMs

\* ctx.author.id of the members who send commands.
AuthorIds == {7, 42}

repeat(c, n) == list([i \in 1..n |-> c])

\* Usernames given to register: two that pass the length check (one of
\* them of exactly the longest accepted length) and one that is too long.
Usernames == {<<"N", "e", "o">>, repeat("x", 50), repeat("y", 51)}

\* Map numbers given to the commands: the two ends of the configured range
\* and an integer outside it.
MapInputs == {1, 5, 6}

\* Time texts given to submit_time.
TimeInputs ==
    { <<"1", ":", "2", "5", ".", "0", "0", "0">>,   \* 85000, M:SS.fff
      <<"8", "5", ",", "0">>,                       \* 85000, comma, padded
      <<" ", "9", "0", "0", "0", "0", " ">>,        \* 90000, raw, stripped
      <<"9", "9", "9">>,                            \* below the range
      <<"6", "0", "0", "0", "0", "1">>,             \* above the range
      <<"1", ":", "2", ":", "3", ":", "4">> }       \* no shape

(***************************************************************************)
(* The store: two tables, each listed in some row order.                   *)
(***************************************************************************)
\* table.select(...).eq(column, value): the rows the store lists, in its
\* own order, cut down to those that match.  ps and ts are the tables
\* players and times as they are when the call is made.
select_players(ps, discord_id) ==
    SelectSeq(ps, LAMBDA r : r.discord_id = discord_id)

select_times_of_player(ts, discord_id) ==
    SelectSeq(ts, LAMBDA r : r.discord_id = discord_id)

select_times_of_map(ts, map_num) ==
    SelectSeq(ts, LAMBDA r : r.map_number = map_num)

\* r and row agree on the columns of key.
same_key(r, row, key) == \A column \in key : r[column] = row[column]

\* The write of an upsert on rows, key being the columns of the table's
\* key.  A new row is listed last.  A replaced row keeps its place or,
\* when moved, is listed last: the store promises neither.
upsert(rows, row, key, moved) ==
    IF \E i \in 1..Len(rows) : same_key(rows[i], row, key) THEN
        IF moved THEN
            Append(SelectSeq(rows, LAMBDA r : ~same_key(r, row, key)), row)
        ELSE
            list([i \in 1..Len(rows) |->
                    IF same_key(rows[i], row, key) THEN row ELSE rows[i]])
    ELSE Append(rows, row)

upsert_player_keep_first(rows, row, moved) ==
    IF \E i \in 1..Len(rows) : rows[i].discord_id = row.discord_id
        THEN rows
        ELSE Append(rows, row)

\* table('players').upsert(row): the key is discord_id.
upsert_player(rows, row, moved) ==
    upsert(rows, row, {"discord_id"}, moved)

upsert_time_keep_best(rows, row, moved) ==
    IF \E i \in 1..Len(rows) :
            /\ rows[i].discord_id = row.discord_id
            /\ rows[i].map_number = row.map_number
            /\ rows[i].time_ms <= row.time_ms
        THEN rows
        ELSE upsert(rows, row, {"discord_id", "map_number"}, moved)

\* table('times').upsert(row): the key is (discord_id, map_number).
upsert_time(rows, row, moved) ==
    upsert(rows, row, {"discord_id", "map_number"}, moved)

(***************************************************************************)
(* sorted(list, key=...): a stable sort, on lists decorated with the key.  *)
(* A key is a tuple of integers, compared as Python compares tuples.       *)
(***************************************************************************)
RECURSIVE tuple_less(_, _)
tuple_less(a, b) ==
    IF Len(a) = 0 \/ Len(b) = 0 THEN Len(a) < Len(b)
    ELSE IF a[1] # b[1] THEN a[1] < b[1]
    ELSE tuple_less(Tail(a), Tail(b))

RECURSIVE insert_sorted(_, _)
\* x goes after every element whose key is not greater than its own.
insert_sorted(done, x) ==
    IF Len(done) = 0 THEN <<x>>
    ELSE IF tuple_less(x.key, done[Len(done)].key)
        THEN Append(insert_sorted(SubSeq(done, 1, Len(done) - 1), x), done[Len(done)])
    ELSE Append(done, x)

RECURSIVE sorted_decorated(_)
sorted_decorated(lst) ==
    IF Len(lst) = 0 THEN <<>>
    ELSE insert_sorted(sorted_decorated(SubSeq(lst, 1, Len(lst) - 1)), lst[Len(lst)])

undecorated(ordered) == list([i \in 1..Len(ordered) |-> ordered[i].item])

\* The key of x: by lists the fields, each with the sign it is taken with.
sort_key(x, by) == list([k \in 1..Len(by) |-> by[k][2] * x[by[k][1]]])

sorted(lst, by) ==
    undecorated(sorted_decorated(
        list([i \in 1..Len(lst) |-> [key |-> sort_key(lst[i], by), item |-> lst[i]]])))

(***************************************************************************)
(* Leaderboard helpers.                                                    *)
(***************************************************************************)
\* The rows of a map as the store lists them, each joined with the
\* username of its player by players(tm_username); a row without a player
\* makes the lookup [1] fail.
joined(ps, rows) ==
    list([i \in 1..Len(rows) |->
        [discord_id |-> rows[i].discord_id,
         tm_username |-> select_players(ps, rows[i].discord_id)[1].tm_username,
         time_ms |-> rows[i].time_ms]])

joined_times_of_map(ps, ts, map_num) == joined(ps, select_times_of_map(ts, map_num))

reversed(lst) == list([i \in 1..Len(lst) |-> lst[Len(lst) + 1 - i]])

get_map_leaderboard_ties_reversed(ps, ts, map_num) ==
    sorted(reversed(joined_times_of_map(ps, ts, map_num)), <<<<"time_ms", 1>>>>)

get_map_leaderboard(ps, ts, map_num) ==
    sorted(joined_times_of_map(ps, ts, map_num), <<<<"time_ms", 1>>>>)

\* The loop of get_player_position: the first place, counted from 1, of
\* a row of leaderboard with the discord_id id; 0 if there is none.
first_place(leaderboard, id) ==
    IF \A i \in 1..Len(leaderboard) : leaderboard[i].discord_id # id THEN 0
    ELSE CHOOSE i \in 1..Len(leaderboard) :
            /\ leaderboard[i].discord_id = id
            /\ \A j \in 1..(i - 1) : leaderboard[j].discord_id # id

get_player_position_zero_based(ps, ts, map_num, discord_id) ==
    first_place(get_map_leaderboard(ps, ts, map_num), py_str(discord_id)) - 1

get_player_position(ps, ts, map_num, discord_id) ==
    first_place(get_map_leaderboard(ps, ts, map_num), py_str(discord_id))

\* total_points += get_points_for_position(position): an exception
\* raised before or by the call ends the loop and is passed on.
add_points(before, points) ==
    IF before.exc # "none" THEN before
    ELSE IF points.exc # "none" THEN points
    ELSE [exc |-> "none", value |-> before.value + points.value]

RECURSIVE sum_points(_, _, _, _)
\* total_points after the loop over time_entries.
sum_points(ps, ts, time_entries, discord_id) ==
    IF Len(time_entries) = 0 THEN [exc |-> "none", value |-> 0]
    ELSE add_points(
            sum_points(ps, ts, SubSeq(time_entries, 1, Len(time_entries) - 1),
                       discord_id),
            get_points_for_position(
                get_player_position(ps, ts,
                                    time_entries[Len(time_entries)].map_number,
                                    py_int(discord_id))))

standings_entry(player, times_result, total_points) ==
    [discord_id |-> player.discord_id,
     tm_username |-> player.tm_username,
     points |-> total_points.value,
     maps_completed |-> Len(times_result),
     exc |-> total_points.exc]

\* One turn of the loop over the players: the row appended to standings.
standings_row(ps, ts, player) ==
    standings_entry(player,
        select_times_of_player(ts, player.discord_id),
        sum_points(ps, ts, select_times_of_player(ts, player.discord_id),
                   player.discord_id))

get_overall_standings_by_points_only(ps, ts) ==
    sorted(list([i \in 1..Len(ps) |-> standings_row(ps, ts, ps[i])]),
           <<<<"points", -1>>>>)

\* One row per listed player, sorted by (-points, -maps_completed).
get_overall_standings(ps, ts) ==
    sorted(list([i \in 1..Len(ps) |-> standings_row(ps, ts, ps[i])]),
           <<<<"points", -1>>, <<"maps_completed", -1>>>>)

(***************************************************************************)
(* Command handlers.  A handler runs from its first store call to its      *)
(* reply without yielding, so each is one step.  result is the reply; a    *)
(* reply that reports a failure is a fixed message.  A store call may      *)
(* raise: inside a try that ends in the reply "StoreFailure", outside of   *)
(* it the exception leaves the handler ("Exception").                      *)
(***************************************************************************)
\* One more command is handled.
step == nops < MaxOps /\ nops' = nops + 1

reply(op, status) == [op |-> op, status |-> status]

\* The usernames stored for author.
stored_usernames(ps, author) ==
    {ps[i].tm_username : i \in {j \in 1..Len(ps) : ps[j].discord_id = py_str(author)}}

\* !tm register <trackmania_username>.  The reply names the author and the
\* username; replaced (the usernames of the rows the upsert replaced) is
\* not sent: it records which write was made.
register_player(author, trackmania_username) ==
    /\ step
    /\ UNCHANGED times
    /\ IF Len(trackmania_username) > MaxUsernameLen THEN
            /\ result' = reply("register", "InvalidInput")
            /\ UNCHANGED players
       ELSE
            \/ /\ result' = reply("register", "StoreFailure")
               /\ UNCHANGED players
            \/ /\ \E moved \in BOOLEAN :
                    players' = upsert_player(players,
                                   [discord_id |-> py_str(author),
                                    tm_username |-> trackmania_username], moved)
               /\ result' = [op |-> "register", status |-> "ok",
                             author |-> author,
                             tm_username |-> trackmania_username,
                             replaced |-> stored_usernames(players, author)]

\* The field added for a place among the first three.
highlight(position) ==
    IF position = 1 THEN "First place!"
    ELSE IF position <= 3 THEN "#n on this map!"
    ELSE "none"

\* The embed sent after a write; position is not shown but by highlight.
\* time_str (the text of the command) and replaced (the times of the rows
\* the upsert replaced) are not sent: they record which write was made.
time_submitted(author, tm_username, map_num, time_str, replaced, time_ms, position) ==
    [op |-> "time", status |-> "ok", author |-> author,
     tm_username |-> tm_username,
     map_num |-> map_num,
     time_str |-> time_str,
     replaced |-> replaced,
     time_ms |-> time_ms,
     formatted_time |-> format_time(time_ms),
     position |-> position,
     highlight |-> highlight(position)]

time_row(author, map_num, time_ms) ==
    [discord_id |-> py_str(author), map_number |-> map_num, time_ms |-> time_ms]

\* The times stored for (author, map_num).
stored_times(ts, author, map_num) ==
    {ts[i].time_ms : i \in {j \in 1..Len(ts) :
        ts[j].discord_id = py_str(author) /\ ts[j].map_number = map_num}}

submit_time_checks_upsert_before_range(author, map_num, time_str, result_data, time_ms) ==
    /\ step
    /\ UNCHANGED players
    /\ \/ /\ result' = reply("time", "Exception")
          /\ UNCHANGED times
       \/ IF Len(result_data) = 0 THEN
               /\ result' = reply("time", "NotRegistered")
               /\ UNCHANGED times
          ELSE IF map_num \notin COMPETITION_MAPS THEN
               /\ result' = reply("time", "InvalidMap")
               /\ UNCHANGED times
          ELSE IF time_ms = None THEN
               /\ result' = reply("time", "InvalidTimeFormat")
               /\ UNCHANGED times
          ELSE IF ~in_range(time_ms) THEN
               /\ result' = reply("time", "OutOfRange")
               /\ \E moved \in BOOLEAN :
                    times' = upsert_time(times, time_row(author, map_num, time_ms),
                                         moved)
          ELSE
               \/ /\ result' = reply("time", "StoreFailure")
                  /\ UNCHANGED times
               \/ /\ \E moved \in BOOLEAN :
                        times' = upsert_time(times,
                                     time_row(author, map_num, time_ms), moved)
                  /\ \/ result' = reply("time", "StoreFailure")
                     \/ result' = time_submitted(author,
                                      result_data[1].tm_username, map_num,
                                      time_str,
                                      stored_times(times, author, map_num),
                                      time_ms,
                                      get_player_position(players, times',
                                                          map_num, author))

\* submit_time from its first check on: result_data is what the select of
\* the player returned, time_ms what parse_time returned.  The upsert and
\* the select behind get_player_position are inside the try.
submit_time_checks(author, map_num, time_str, result_data, time_ms) ==
    /\ step
    /\ UNCHANGED players
    /\ \/ /\ result' = reply("time", "Exception")
          /\ UNCHANGED times
       \/ IF Len(result_data) = 0 THEN
               /\ result' = reply("time", "NotRegistered")
               /\ UNCHANGED times
          ELSE IF map_num \notin COMPETITION_MAPS THEN
               /\ result' = reply("time", "InvalidMap")
               /\ UNCHANGED times
          ELSE IF time_ms = None THEN
               /\ result' = reply("time", "InvalidTimeFormat")
               /\ UNCHANGED times
          ELSE IF ~in_range(time_ms) THEN
               /\ result' = reply("time", "OutOfRange")
               /\ UNCHANGED times
          ELSE
               \/ /\ result' = reply("time", "StoreFailure")
                  /\ UNCHANGED times
               \/ /\ \E moved \in BOOLEAN :
                        times' = upsert_time(times,
                                     time_row(author, map_num, time_ms), moved)
                  /\ \/ result' = reply("time", "StoreFailure")
                     \/ result' = time_submitted(author,
                                      result_data[1].tm_username, map_num,
                                      time_str,
                                      stored_times(times, author, map_num),
                                      time_ms,
                                      get_player_position(players, times',
                                                          map_num, author))

\* !tm time <map_num> <time_str>.  The select of the player is outside
\* the try: when it raises, the exception leaves the handler.
submit_time(author, map_num, time_str) ==
    submit_time_checks(author, map_num, time_str,
                       select_players(players, py_str(author)),
                       parse_time(time_str))

\* The rows shown for one map: the first ten, each with its gap to the
\* leader (none for the leader).
top10_rows(map_lb) ==
    list([i \in 1..(IF Len(map_lb) < 10 THEN Len(map_lb) ELSE 10) |->
        [position |-> i,
         tm_username |-> map_lb[i].tm_username,
         time_str |-> format_time(map_lb[i].time_ms),
         split |-> IF i = 1 THEN <<>>
                   ELSE format_time(map_lb[i].time_ms - map_lb[1].time_ms)]])

\* The reply of show_map_leaderboard once map_lb is computed.
map_reply(map_num, map_lb) ==
    IF Len(map_lb) = 0 THEN [op |-> "map", status |-> "NoTimes", map_num |-> map_num]
    ELSE [op |-> "map", status |-> "ok", map_num |-> map_num,
          fields |-> top10_rows(map_lb)]

\* !tm map <map_num>
show_map_leaderboard(map_num) ==
    /\ step
    /\ UNCHANGED <<players, times>>
    /\ IF map_num \notin COMPETITION_MAPS THEN
            result' = reply("map", "InvalidMap")
       ELSE
            \/ result' = reply("map", "StoreFailure")
            \/ result' = map_reply(map_num,
                                   get_map_leaderboard(players, times, map_num))

\* The first ten rows of the overall standings, as shown.
top10_overall(overall) ==
    list([i \in 1..(IF Len(overall) < 10 THEN Len(overall) ELSE 10) |->
        [tm_username |-> overall[i].tm_username,
         points |-> overall[i].points,
         maps_completed |-> overall[i].maps_completed]])

\* The reply of show_leaderboard once overall is computed; an exception
\* raised on the way is caught.
leaderboard_reply(ps, ts, overall) ==
    IF \E i \in 1..Len(overall) : overall[i].exc # "none" THEN
        reply("leaderboard", "StoreFailure")
    ELSE
        [op |-> "leaderboard", status |-> "ok",
         maps |-> [m \in COMPETITION_MAPS |->
                      top10_rows(get_map_leaderboard(ps, ts, m))],
         overall |-> top10_overall(overall)]

\* !tm leaderboard
show_leaderboard ==
    /\ step
    /\ UNCHANGED <<players, times>>
    /\ \/ result' = reply("leaderboard", "StoreFailure")
       \/ result' = leaderboard_reply(players, times,
                                      get_overall_standings(players, times))

\* One turn of the loop of show_my_stats, on the map map_num: found are the
\* author's rows of that map, position and points are computed only when
\* there is one.  before and the result are [exc, total_points, fields].
my_stats_turn(before, map_num, found, position, points) ==
    IF before.exc # "none" THEN before
    ELSE IF Len(found) = 0 THEN
        [before EXCEPT !.fields = Append(@, [map_num |-> map_num,
                                             value |-> "No time"])]
    ELSE IF points.exc # "none" THEN
        [exc |-> points.exc, total_points |-> 0, fields |-> <<>>]
    ELSE
        [exc |-> "none",
         total_points |-> before.total_points + points.value,
         fields |-> Append(before.fields,
             [map_num |-> map_num,
              time_str |-> format_time(found[1].time_ms),
              position |-> position,
              points |-> points.value])]

RECURSIVE my_stats_fields(_, _, _, _)
\* The loop of show_my_stats over the maps 1..upto.
my_stats_fields(ps, ts, author, upto) ==
    IF upto = 0 THEN [exc |-> "none", total_points |-> 0, fields |-> <<>>]
    ELSE my_stats_turn(
            my_stats_fields(ps, ts, author, upto - 1),
            upto,
            SelectSeq(select_times_of_player(ts, py_str(author)),
                      LAMBDA t : t.map_number = upto),
            get_player_position(ps, ts, upto, author),
            get_points_for_position(get_player_position(ps, ts, upto, author)))

my_stats_first_map_only(ps, ts, author) == my_stats_fields(ps, ts, author, 1)

\* The whole loop: for map_num in COMPETITION_MAPS.keys().
my_stats(ps, ts, author) == my_stats_fields(ps, ts, author, 5)

\* The reply of show_my_stats once the player is selected (result_data)
\* and the loop is done (stats); an exception raised in the loop is caught.
my_stats_reply(author, result_data, stats) ==
    IF stats.exc # "none" THEN reply("mystats", "StoreFailure")
    ELSE [op |-> "mystats", status |-> "ok", author |-> author,
          tm_username |-> result_data[1].tm_username,
          fields |-> stats.fields,
          total_points |-> stats.total_points]

\* !tm mystats
show_my_stats(author) ==
    /\ step
    /\ UNCHANGED <<players, times>>
    /\ \/ result' = reply("mystats", "StoreFailure")
       \/ IF Len(select_players(players, py_str(author))) = 0 THEN
               result' = reply("mystats", "NotRegistered")
          ELSE
               result' = my_stats_reply(author,
                             select_players(players, py_str(author)),
                             my_stats(players, times, author))

(***************************************************************************)
(* The bot: an empty store, then any commands in any order.                *)
(***************************************************************************)
Init ==
    /\ players = <<>>
    /\ times = <<>>
    /\ nops = 0
    /\ result = reply("none", "none")

Next ==
    \/ \E author \in AuthorIds, name \in Usernames : register_player(author, name)
    \/ \E author \in AuthorIds, map_num \in MapInputs, time_str \in TimeInputs :
            submit_time(author, map_num, time_str)
    \/ \E map_num \in MapInputs : show_map_leaderboard(map_num)
    \/ show_leaderboard
    \/ \E author \in AuthorIds : show_my_stats(author)

Spec == Init /\ [][Next]_vars

(***************************************************************************)
(* The leaderboards on a store that earlier commands have filled: five     *)
(* players, and on each of three maps one of a few line-ups of rows with   *)
(* one of a few patterns of times.  One command is then handled.           *)
(***************************************************************************)
\* ctx.author.id of the five players, by their number 1..5.
BoardIds == <<7, 10, 42, 3, 100>>

BoardNames == <<"A", "B", "C", "D", "E">>

\* The orders in which the store lists the five players.
PlayerOrders == {<<1, 2, 3, 4, 5>>, <<5, 4, 3, 2, 1>>, <<2, 1, 4, 5, 3>>}

\* The players (by number) who have a row on a map, in the store's order.
Lineups == {<<>>, <<1>>, <<2, 1>>, <<1, 2, 3>>, <<3, 1, 4, 2>>, <<3, 4, 5, 2>>}

\* The times of the rows of a map, in the store's order: all equal, or
\* out of order with a tie.
TimePatterns == {<<85000, 85000, 85000, 85000>>, <<90000, 85000, 85000, 86000>>}

BoardMaps == <<1, 2, 5>>

board_players(order) ==
    list([i \in 1..Len(order) |->
        [discord_id |-> py_str(BoardIds[order[i]]),
         tm_username |-> <<BoardNames[order[i]]>>]])

board_rows(map_num, lineup, pattern) ==
    list([i \in 1..Len(lineup) |->
        [discord_id |-> py_str(BoardIds[lineup[i]]),
         map_number |-> map_num,
         time_ms |-> pattern[i]]])

InitBoard ==
    /\ \E order \in PlayerOrders : players = board_players(order)
    /\ \E l1 \in Lineups, l2 \in Lineups, l3 \in Lineups,
          p1 \in TimePatterns, p2 \in TimePatterns, p3 \in TimePatterns :
            times = board_rows(BoardMaps[1], l1, p1)
                        \o board_rows(BoardMaps[2], l2, p2)
                        \o board_rows(BoardMaps[3], l3, p3)
    /\ nops = MaxOps - 1
    /\ result = reply("none", "none")

NextBoard ==
    \/ \E map_num \in MapInputs : show_map_leaderboard(map_num)
    \/ show_leaderboard
    \/ \E i \in 1..Len(BoardIds) : show_my_stats(BoardIds[i])

SpecBoard == InitBoard /\ [][NextBoard]_vars

(***************************************************************************)
(* The scoring table on its own: one call on any position.                 *)
(***************************************************************************)
InitPoints ==
    /\ players = <<>>
    /\ times = <<>>
    /\ nops = 0
    /\ \E position \in (-MaxRank)..MaxRank :
            result = [op |-> "call", fn |-> "get_points_for_position",
                      position |-> position]

call_get_points_for_position ==
    /\ result.op = "call"
    /\ result.fn = "get_points_for_position"
    /\ result' = [op |-> "return", fn |-> "get_points_for_position",
                  position |-> result.position,
                  ret |-> get_points_for_position(result.position)]
    /\ UNCHANGED <<players, times, nops>>

NextPoints == call_get_points_for_position

SpecPoints == InitPoints /\ [][NextPoints]_vars

(***************************************************************************)
(* The time codec on its own: a duration is formatted, the text parsed.    *)
(***************************************************************************)
InitCodec ==
    /\ players = <<>>
    /\ times = <<>>
    /\ nops = 0
    /\ \E ms \in 1..MaxTimeMs :
            result = [op |-> "call", fn |-> "format_time", ms |-> ms]

call_format_time ==
    /\ result.op = "call"
    /\ result.fn = "format_time"
    /\ result' = [op |-> "return", fn |-> "format_time", ms |-> result.ms,
                  text |-> format_time(result.ms)]
    /\ UNCHANGED <<players, times, nops>>

call_parse_time ==
    /\ result.op = "return"
    /\ result.fn = "format_time"
    /\ result' = [op |-> "return", fn |-> "parse_time", ms |-> result.ms,
                  text |-> result.text, value |-> parse_time(result.text)]
    /\ UNCHANGED <<players, times, nops>>

NextCodec == call_format_time \/ call_parse_time

SpecCodec == InitCodec /\ [][NextCodec]_vars

(***************************************************************************)
(* Properties.                                                             *)
(***************************************************************************)
RowSet(rows) == {rows[i] : i \in 1..Len(rows)}

\* C1: after any commands, succeeding or failing, every row of times has
\* map_number in 1..5 and 1000 <= time_ms <= 600000.
C1_StoredTimesInRange ==
    \A i \in 1..Len(times) :
        /\ times[i].map_number \in 1..5
        /\ 1000 <= times[i].time_ms
        /\ times[i].time_ms <= 600000

\* A time out of the range has just been refused while rows are stored.
C1_Witness ==
    /\ result.op = "time"
    /\ result.status = "OutOfRange"
    /\ Len(times) >= 2

\* C2: a submit_time that fails with NotRegistered, InvalidMap,
\* InvalidTimeFormat or OutOfRange writes nothing: both tables are after
\* the call what they were before it.
C2_FailedSubmitWritesNothing ==
    [][(/\ result'.op = "time"
        /\ result'.status \in {"NotRegistered", "InvalidMap",
                               "InvalidTimeFormat", "OutOfRange"})
       => (players' = players /\ times' = times)]_vars

\* A submission has just failed its format check while rows are stored.
C2_Witness ==
    /\ result.op = "time"
    /\ result.status = "InvalidTimeFormat"
    /\ Len(times) >= 1
    /\ Len(players) >= 2

\* The milliseconds each time text of TimeInputs stands for.
C3_Expected(time_str) ==
    CASE time_str = <<"1", ":", "2", "5", ".", "0", "0", "0">> -> 85000
      [] time_str = <<"8", "5", ",", "0">> -> 85000
      [] time_str = <<" ", "9", "0", "0", "0", "0", " ">> -> 90000
      [] time_str = <<"9", "9", "9">> -> 999
      [] time_str = <<"6", "0", "0", "0", "0", "1">> -> 600001
      [] OTHER -> -1

C3_OtherKey(row, author, map_num) ==
    ~(row.discord_id = py_str(author) /\ row.map_number = map_num)

\* C3: a successful submit_time(author, map_num, time_str) leaves exactly
\* one row for (author, map_num), holding the milliseconds time_str stands
\* for whatever was stored before, and leaves the rows of every other key
\* and the table players as they were.
C3_SubmitOverwritesOneKey ==
    [][(result'.op = "time" /\ result'.status = "ok") =>
        /\ Cardinality({i \in 1..Len(times') :
               ~C3_OtherKey(times'[i], result'.author, result'.map_num)}) = 1
        /\ \A i \in 1..Len(times') :
               ~C3_OtherKey(times'[i], result'.author, result'.map_num)
                   => times'[i].time_ms = C3_Expected(result'.time_str)
        /\ {r \in RowSet(times') : C3_OtherKey(r, result'.author, result'.map_num)}
             = {r \in RowSet(times) : C3_OtherKey(r, result'.author, result'.map_num)}
        /\ Len(times') = Cardinality(RowSet(times'))
        /\ players' = players]_vars

\* A slower time has just replaced a faster one, beside a row of another key.
C3_Witness ==
    /\ result.op = "time"
    /\ result.status = "ok"
    /\ result.time_ms = 90000
    /\ result.replaced = {85000}
    /\ Len(times) >= 2

\* C8: a successful submit_time reports the place of the player on the map
\* as it is after the write: at least 1, and 1 plus the number of rows of
\* get_map_leaderboard placed before the row of the player.
C8_SubmitReportsPlace ==
    (result.op = "time" /\ result.status = "ok") =>
        LET lb == get_map_leaderboard(players, times, result.map_num)
            mine == {i \in 1..Len(lb) : lb[i].discord_id = py_str(result.author)}
        IN /\ result.position >= 1
           /\ Cardinality(mine) = 1
           /\ \A i \in mine : result.position = 1 + Cardinality(1..(i - 1))
           /\ result.highlight = (IF result.position = 1 THEN "First place!"
                                  ELSE IF result.position \in {2, 3}
                                      THEN "#n on this map!"
                                  ELSE "none")

\* A submission has just been placed second.
C8_Witness ==
    /\ result.op = "time"
    /\ result.status = "ok"
    /\ result.position = 2

\* C9: a register with a username of more than 50 characters fails with
\* InvalidInput and writes nothing; a successful register leaves exactly
\* one row for the author, with the username given, leaves the other rows
\* of players and the table times as they were, and changes nothing when
\* the row was there already; nothing else writes players; no two rows of
\* players have the same discord_id.
C9_RegisterUpserts ==
    [][/\ \A author \in AuthorIds, name \in Usernames :
            (Len(name) > 50 /\ register_player(author, name)) =>
                /\ result' = [op |-> "register", status |-> "InvalidInput"]
                /\ players' = players
                /\ times' = times
       /\ \A author \in AuthorIds, name \in Usernames :
            (Len(name) <= 50 /\ register_player(author, name)) =>
                result'.status \in {"ok", "StoreFailure"}
       /\ (result'.op = "register" /\ result'.status = "ok") =>
            /\ {r \in RowSet(players') : r.discord_id = py_str(result'.author)}
                 = {[discord_id |-> py_str(result'.author),
                     tm_username |-> result'.tm_username]}
            /\ {r \in RowSet(players') : r.discord_id # py_str(result'.author)}
                 = {r \in RowSet(players) : r.discord_id # py_str(result'.author)}
            /\ times' = times
            /\ [discord_id |-> py_str(result'.author),
                tm_username |-> result'.tm_username] \in RowSet(players)
                    => RowSet(players') = RowSet(players)
       /\ ~(result'.op = "register" /\ result'.status = "ok")
            => players' = players
       /\ \A i \in 1..Len(players'), j \in 1..Len(players') :
            players'[i].discord_id = players'[j].discord_id => i = j]_vars

\* A player who has a time has just registered again under another name,
\* of exactly 50 characters.
C9_Witness ==
    /\ result.op = "register"
    /\ result.status = "ok"
    /\ Len(result.tm_username) = 50
    /\ result.replaced = {<<"N", "e", "o">>}
    /\ \E i \in 1..Len(times) : times[i].discord_id = py_str(result.author)

\* C10: for every registered player the total of show_my_stats, a loop
\* over the five maps, is the points of the player's row of
\* get_overall_standings, a loop over the player's rows of times.
C10_MyStatsAgreesWithStandings ==
    /\ \A author \in AuthorIds :
        Len(select_players(players, py_str(author))) > 0 =>
            /\ my_stats(players, times, author).exc = "none"
            /\ \E i \in 1..Len(get_overall_standings(players, times)) :
                LET row == get_overall_standings(players, times)[i]
                IN /\ row.discord_id = py_str(author)
                   /\ row.exc = "none"
                   /\ row.points = my_stats(players, times, author).total_points
    /\ (result.op = "mystats" /\ result.status = "ok") =>
            \E i \in 1..Len(get_overall_standings(players, times)) :
                LET row == get_overall_standings(players, times)[i]
                IN /\ row.discord_id = py_str(result.author)
                   /\ row.points = result.total_points

\* show_my_stats has just summed the points of first places on two maps.
C10_Witness ==
    /\ result.op = "mystats"
    /\ result.status = "ok"
    /\ result.total_points = 50

\* The points the scoring table states for a rank.
C4_Expected(rank) ==
    IF rank <= 0 THEN 0
    ELSE IF rank <= 10 THEN <<25, 18, 15, 12, 10, 8, 6, 4, 2, 1>>[rank]
    ELSE 1

\* C4: get_points_for_position returns on every integer (it never raises):
\* 0 for a rank <= 0, negative ranks included, the entry of the table for
\* a rank in 1..10, and 1 for a rank above 10.
C4_PointsTotalAndFloored ==
    (result.op = "return" /\ result.fn = "get_points_for_position") =>
        /\ result.ret.exc = "none"
        /\ result.ret.value = C4_Expected(result.position)

\* C5: for every t with 0 < t <= 600000, format_time(t) is MM:SS.mmm, with
\* at least two digits of minutes, two digits of seconds in 0..59 and three
\* digits of milliseconds, and parse_time reads it back to t.
C5_ParseFormatRoundTrip ==
    /\ (result.op = "return" /\ result.fn \in {"format_time", "parse_time"}) =>
        LET text == result.text
            n == Len(text)
        IN /\ n >= 9
           /\ text[n - 3] = "."
           /\ text[n - 6] = ":"
           /\ \A i \in (1..n) \ {n - 3, n - 6} : IsDigit(text[i])
           /\ 10 * DigitVal(text[n - 5]) + DigitVal(text[n - 4]) \in 0..59
    /\ (result.op = "return" /\ result.fn = "parse_time") =>
        result.value = result.ms

\* The text 01:23.456 of 83456 ms has been parsed back to 83456.
C5_Witness ==
    /\ result.op = "return"
    /\ result.fn = "parse_time"
    /\ result.ms = 83456
    /\ result.text = <<"0", "1", ":", "2", "3", ".", "4", "5", "6">>
    /\ result.value = 83456

\* The place in rows of the row of the player id.
C6_Listed(rows, id) == CHOOSE k \in 1..Len(rows) : rows[k].discord_id = id

\* C6: on every map, get_map_leaderboard is a permutation of the rows the
\* store lists for the map (none dropped, none twice), in non-decreasing
\* time_ms, rows of equal time_ms in the order of the store's listing;
\* get_player_position is the place, from 1, of the player's row, so the
\* places on a map are 1..n, and 0 for a player with no row; the rows
\* show_map_leaderboard shows are those, in that order.
C6_LeaderboardSortedStable ==
    /\ \A map_num \in COMPETITION_MAPS :
        LET rows == joined_times_of_map(players, times, map_num)
            lb == get_map_leaderboard(players, times, map_num)
            ids == {rows[k].discord_id : k \in 1..Len(rows)}
        IN /\ Len(lb) = Len(rows)
           /\ \A k \in 1..Len(rows) :
                Cardinality({i \in 1..Len(lb) : lb[i] = rows[k]})
                    = Cardinality({j \in 1..Len(rows) : rows[j] = rows[k]})
           /\ \A i \in 1..Len(lb), j \in 1..Len(lb) :
                i < j =>
                    /\ lb[i].time_ms <= lb[j].time_ms
                    /\ lb[i].time_ms = lb[j].time_ms =>
                        C6_Listed(rows, lb[i].discord_id)
                            < C6_Listed(rows, lb[j].discord_id)
           /\ \A i \in 1..Len(lb) :
                get_player_position(players, times, map_num,
                                    py_int(lb[i].discord_id)) = i
           /\ \A k \in 1..Len(BoardIds) :
                py_str(BoardIds[k]) \notin ids =>
                    get_player_position(players, times, map_num, BoardIds[k]) = 0
    /\ (result.op = "map" /\ result.status = "ok") =>
        LET lb == get_map_leaderboard(players, times, result.map_num)
        IN /\ Len(result.fields) = Len(lb)
           /\ \A i \in 1..Len(lb) :
                /\ result.fields[i].position = i
                /\ result.fields[i].tm_username = lb[i].tm_username

\* show_map_leaderboard has shown the rows (A, 90000), (B, 85000),
\* (C, 85000), listed in that order, as B, C, A, with A 5000 ms behind.
C6_Witness ==
    /\ result.op = "map"
    /\ result.status = "ok"
    /\ Len(result.fields) = 3
    /\ result.fields[1].tm_username = <<"B">>
    /\ result.fields[2].tm_username = <<"C">>
    /\ result.fields[3].tm_username = <<"A">>
    /\ result.fields[3].split = <<"0", "0", ":", "0", "5", ".", "0", "0", "0">>
    /\ LET rows == select_times_of_map(times, result.map_num)
       IN /\ rows[1].time_ms = 90000
          /\ rows[2].time_ms = 85000
          /\ rows[3].time_ms = 85000

\* The rank of the row of id among rows: one more than the number of rows
\* with a smaller time, or with the same time and listed earlier.
C7_Rank(rows, id) ==
    LET k == C6_Listed(rows, id)
    IN 1 + Cardinality({j \in 1..Len(rows) :
            \/ rows[j].time_ms < rows[k].time_ms
            \/ rows[j].time_ms = rows[k].time_ms /\ j < k})

\* The maps on which the player id has a row.
C7_Maps(id) ==
    {m \in COMPETITION_MAPS :
        \E i \in 1..Len(times) : times[i].discord_id = id /\ times[i].map_number = m}

RECURSIVE C7_Sum(_, _)
\* The sum over the maps of ms of the points of the rank of id.
C7_Sum(ms, id) ==
    IF ms = {} THEN 0
    ELSE LET m == CHOOSE x \in ms : TRUE
         IN get_points_for_position(
                C7_Rank(select_times_of_map(times, m), id)).value
            + C7_Sum(ms \ {m}, id)

\* C7: get_overall_standings has one row per registered player, players
\* without a time included (0 points, 0 maps); maps_completed is the number
\* of maps the player has a row on, points the sum over those maps of the
\* points of the player's rank; the rows are in descending points, then
\* descending maps_completed, then the order of the store's listing of the
\* players; show_leaderboard shows them in that order.
C7_StandingsSummedAndSorted ==
    LET st == get_overall_standings(players, times)
    IN /\ Len(st) = Len(players)
       /\ \A k \in 1..Len(players) :
            Cardinality({i \in 1..Len(st) :
                st[i].discord_id = players[k].discord_id}) = 1
       /\ \A i \in 1..Len(st) :
            /\ st[i].exc = "none"
            /\ st[i].maps_completed = Cardinality(C7_Maps(st[i].discord_id))
            /\ st[i].points = C7_Sum(C7_Maps(st[i].discord_id), st[i].discord_id)
            /\ st[i].tm_username
                 = players[C6_Listed(players, st[i].discord_id)].tm_username
       /\ \A i \in 1..Len(st), j \in 1..Len(st) :
            i < j =>
                \/ st[i].points > st[j].points
                \/ /\ st[i].points = st[j].points
                   /\ st[i].maps_completed > st[j].maps_completed
                \/ /\ st[i].points = st[j].points
                   /\ st[i].maps_completed = st[j].maps_completed
                   /\ C6_Listed(players, st[i].discord_id)
                        < C6_Listed(players, st[j].discord_id)
       /\ (result.op = "leaderboard" /\ result.status = "ok") =>
            /\ Len(result.overall) = Len(st)
            /\ \A i \in 1..Len(st) :
                /\ result.overall[i].tm_username = st[i].tm_username
                /\ result.overall[i].points = st[i].points
                /\ result.overall[i].maps_completed = st[i].maps_completed

\* show_leaderboard has shown B (36 points on 3 maps) before A (36 points
\* on 2 maps) though the store lists A first.
C7_Witness ==
    /\ result.op = "leaderboard"
    /\ result.status = "ok"
    /\ players[1].tm_username = <<"A">>
    /\ \E i \in 1..(Len(result.overall) - 1) :
        /\ result.overall[i] =
             [tm_username |-> <<"B">>, points |-> 36, maps_completed |-> 3]
        /\ result.overall[i + 1] =
             [tm_username |-> <<"A">>, points |-> 36, maps_completed |-> 2]

=============================================================================
